---- MODULE Spec2Model ----
(***************************************************************************)
(* Model of setup.py of pyCroscopy: the script reads README.md from the    *)
(* directory of the script, discovers the packages of the working          *)
(* directory and calls setuptools.setup() once with the manifest.          *)
(*                                                                         *)
(* A path is a record [abs, parts]; a package name, a pattern and the      *)
(* exclude argument are sequences of characters, so that iterating a       *)
(* Python string yields its characters; file content is a sequence of      *)
(* bytes over a small alphabet holding CR and LF.                          *)
(***************************************************************************)
EXTENDS Naturals, Sequences, FiniteSets, TLC

VARIABLES
    readme,            \* state of <ScriptDir>/README.md on the file system
    tree,              \* kind of the optional directories next to setup.py
    py,                \* major version of the interpreter running the script
    cwd,               \* working directory of the process
    file,              \* __file__ as the interpreter sets it
    pc,                \* position of the script
    here,              \* line 6
    opened,            \* absolute path handed to open(), line 7
    handle,            \* state of the file object f
    long_description,  \* line 8
    packages,          \* value of find_packages(exclude='tests'), line 29
    calls,             \* keyword arguments of each setup() call, line 10
    err,               \* exception that ended the run
    trace,             \* steps of the run, in order
    io,                \* file-system accesses of the run
    rerun,             \* this is the second run of the script
    edited,            \* README.md was changed between the two runs
    prev               \* outcome of the first run, kept by the observer

vars == <<readme, tree, py, cwd, file, pc, here, opened, handle,
          long_description, packages, calls, err, trace, io, rerun, edited, prev>>

\* ------------------------------------------------------------------ bounds
MaxLen == 2

\* --------------------------------------------------------------- sequences
RECURSIVE SeqsUpTo(_, _)
SeqsUpTo(S, n) ==
    IF n = 0 THEN {<<>>}
    ELSE LET shorter == SeqsUpTo(S, n - 1)
         IN  shorter \cup {Append(s, x) : s \in {t \in shorter : Len(t) = n - 1}, x \in S}

Front(s) == SubSeq(s, 1, Len(s) - 1)

\* ------------------------------------------------------------- file system
Bytes == {"a", "CR", "LF"}
Contents == SeqsUpTo(Bytes, MaxLen)

Absent == [st |-> "absent", data |-> <<>>]
NoPerm == [st |-> "noperm", data |-> <<>>]
File(d) == [st |-> "file", data |-> d]
FileStates == {Absent, NoPerm} \cup {File(d) : d \in Contents}

ScriptDir == <<"proj">>
OtherDir == <<"other">>
OtherReadme == File(<<"o">>)

AbsPath(parts) == [abs |-> TRUE, parts |-> parts]
RelPath(parts) == [abs |-> FALSE, parts |-> parts]
NoPath == RelPath(<<>>)

ReadmePath == AbsPath(ScriptDir \o <<"README.md">>)

\* The file a path names: README.md beside the script is the variable, the
\* working directory of a run started elsewhere holds another README.md.
FileAt(p) ==
    IF p = ReadmePath THEN readme
    ELSE IF p = AbsPath(OtherDir \o <<"README.md">>) THEN OtherReadme
    ELSE Absent

\* Package names, as the characters of the Python strings.
Tests == <<"t", "e", "s", "t", "s">>
T == <<"t">>
Pycroscopy == <<"p", "y", "c", "r", "o", "s", "c", "o", "p", "y">>
Docs == <<"d", "o", "c", "s">>
Optional == {Tests, T}
Kinds == {"none", "dir", "pkg"}

\* Directory entries of d: "pkg" is a directory holding __init__.py.
ListDir(d) ==
    IF d = ScriptDir
    THEN [n \in Optional \cup {Pycroscopy, Docs} |->
            IF n \in Optional THEN tree[n] ELSE IF n = Pycroscopy THEN "pkg" ELSE "dir"]
    ELSE [n \in {} |-> "none"]

\* ----------------------------------------------------------------- os.path
dirname(p) == [abs |-> p.abs, parts |-> Front(p.parts)]

join(a, b) == IF b.abs THEN b ELSE [abs |-> a.abs, parts |-> a.parts \o b.parts]

RECURSIVE Collapse(_, _)
Collapse(done, rest) ==
    IF rest = <<>> THEN done
    ELSE IF Head(rest) = "."  THEN Collapse(done, Tail(rest))
    ELSE IF Head(rest) = ".." THEN Collapse(IF done = <<>> THEN <<>> ELSE Front(done), Tail(rest))
    ELSE Collapse(Append(done, Head(rest)), Tail(rest))

normpath(p) == [abs |-> p.abs, parts |-> Collapse(<<>>, p.parts)]

abspath(p) == normpath(IF p.abs THEN p ELSE join(AbsPath(cwd), p))

\* The ways the script is started: the working directory and __file__.
Invocations ==
    { <<ScriptDir, RelPath(<<"setup.py">>)>>,
      <<ScriptDir, AbsPath(ScriptDir \o <<"setup.py">>)>>,
      <<OtherDir,  RelPath(<<"..">> \o ScriptDir \o <<"setup.py">>)>>,
      <<OtherDir,  AbsPath(ScriptDir \o <<"setup.py">>)>> }

\* ------------------------------------------------------------- codecs.open
\* Text mode of Python 3 translates CR LF and a lone CR to LF.
RECURSIVE UniversalNewlines(_)
UniversalNewlines(d) ==
    IF d = <<>> THEN <<>>
    ELSE IF Head(d) = "CR"
         THEN IF Len(d) > 1 /\ d[2] = "LF"
              THEN <<"LF">> \o UniversalNewlines(Tail(Tail(d)))
              ELSE <<"LF">> \o UniversalNewlines(Tail(d))
    ELSE <<Head(d)>> \o UniversalNewlines(Tail(d))

\* codecs.open without an encoding is the builtin open: mode 'rb' on
\* Python 2, mode 'r' on Python 3.  f.read() returns the whole file.
f_read(d) == IF py = 2 THEN d ELSE UniversalNewlines(d)

\* ------------------------------------------------- setuptools.find_packages
Star == <<"*">>

\* A Python argument that is iterated: a string or a tuple of strings.
StrArg(s) == [kind |-> "str", items |-> s]
TupleArg(t) == [kind |-> "tuple", items |-> t]

\* *arg: the elements of the iteration; a string yields its characters,
\* each a string of length one.
Unpack(arg) ==
    IF arg.kind = "str"
    THEN {<<arg.items[i]>> : i \in DOMAIN arg.items}
    ELSE {arg.items[i] : i \in DOMAIN arg.items}

\* fnmatchcase on the patterns that occur: '*' and patterns without wildcards.
fnmatchcase(name, pat) == pat = Star \/ pat = name

\* The filter built from patterns: a name passes when some pattern matches.
build_filter(pats, name) == \E p \in pats : fnmatchcase(name, p)

\* find_packages(where, exclude, include): the directories of where that
\* hold __init__.py, match include and do not match exclude.
find_packages(where, exclude, include) ==
    {n \in DOMAIN ListDir(where) :
        /\ ListDir(where)[n] = "pkg"
        /\ build_filter(Unpack(include), n)
        /\ ~build_filter(Unpack(exclude), n)}

\* The file-system accesses of the walk: the directory is listed, each
\* sub-directory is probed for __init__.py, each package is walked in turn.
WalkIO(where) ==
    LET ls == ListDir(where)
    IN  {[op |-> "listdir", path |-> where, name |-> <<>>]}
        \cup {[op |-> "stat", path |-> where, name |-> n] : n \in {m \in DOMAIN ls : ls[m] # "none"}}
        \cup {[op |-> "listdir", path |-> where, name |-> n] : n \in {m \in DOMAIN ls : ls[m] = "pkg"}}

\* ---------------------------------------------------------------- the script
Classifiers ==
    << "Development Status :: 2 - Pre-Alpha",
       "Environment :: Console",
       "Intended Audience :: Science/Research",
       "License :: OSI Approved :: MIT License",
       "Natural Language :: English",
       "Operating System :: OS Independent",
       "Programming Language :: Cython",
       "Programming Language :: Python :: 2.7",
       "Programming Language :: Python :: Implementation :: CPython",
       "Topic :: Scientific/Engineering :: Chemistry",
       "Topic :: Scientific / Engineering :: Information Analysis",
       "Topic :: Scientific/Engineering :: Physics" >>

\* The keyword arguments of the setup() call, lines 11 to 39.
SetupKwargs ==
    [ name                 |-> "pyCroscopy",
      version              |-> "0.0a1",
      description          |-> "A suite of Python libraries for high performance scientific computing of microscopy data.",
      long_description     |-> long_description,
      classifiers          |-> Classifiers,
      packages             |-> packages,
      url                  |-> "http://github.com/pycroscopy/pyCroscopy",
      license              |-> "MIT",
      author               |-> "S. Somnath, C. Ryan, N. Laanait",
      author_email         |-> "pycroscopy@gmail.com",
      dependency           |-> "",
      dependency_links     |-> <<"">>,
      install_requires     |-> <<"">>,
      test_suite           |-> "nose.collector",
      tests_require        |-> "Nose",
      include_package_data |-> TRUE ]

Terminal == pc \in {"done", "failed"}

NoPrev == [done |-> FALSE, ld |-> <<>>, cwd |-> <<>>]

Init ==
    /\ readme \in FileStates
    /\ tree \in [Optional -> Kinds]
    /\ py \in {2, 3}
    /\ \E inv \in Invocations : cwd = inv[1] /\ file = inv[2]
    /\ pc = "start"
    /\ here = NoPath
    /\ opened = NoPath
    /\ handle = "none"
    /\ long_description = <<>>
    /\ packages = {}
    /\ calls = <<>>
    /\ err = "none"
    /\ trace = <<>>
    /\ io = {}
    /\ rerun = FALSE
    /\ edited = FALSE
    /\ prev = NoPrev

\* Variant of line 6 that anchors the README to the working directory,
\* here = os.getcwd().
ComputeHereFromCwd ==
    /\ pc = "start"
    /\ here' = AbsPath(cwd)
    /\ pc' = "here"
    /\ UNCHANGED <<readme, tree, py, cwd, file, opened, handle, long_description,
                   packages, calls, err, trace, io, rerun, edited, prev>>

\* line 6: here = path.abspath(path.dirname(__file__))
ComputeHere ==
    /\ pc = "start"
    /\ here' = abspath(dirname(file))
    /\ pc' = "here"
    /\ UNCHANGED <<readme, tree, py, cwd, file, opened, handle, long_description,
                   packages, calls, err, trace, io, rerun, edited, prev>>

\* The path open() receives, as the operating system resolves it.
OpenArg == abspath(join(here, RelPath(<<"README.md">>)))

\* Variant of line 7 that opens README.md for update.
OpenReadmeForUpdate ==
    /\ pc = "here"
    /\ FileAt(OpenArg).st = "file"
    /\ opened' = OpenArg
    /\ handle' = "open"
    /\ io' = io \cup {[op |-> "open_w", path |-> OpenArg.parts, name |-> <<>>]}
    /\ trace' = Append(trace, "open")
    /\ pc' = "with"
    /\ UNCHANGED <<readme, tree, py, cwd, file, here, long_description,
                   packages, calls, err, rerun, edited, prev>>

\* line 7: open(path.join(here, 'README.md')) returns a file object.
OpenReadme ==
    /\ pc = "here"
    /\ FileAt(OpenArg).st = "file"
    /\ opened' = OpenArg
    /\ handle' = "open"
    /\ io' = io \cup {[op |-> "open_r", path |-> OpenArg.parts, name |-> <<>>]}
    /\ trace' = Append(trace, "open")
    /\ pc' = "with"
    /\ UNCHANGED <<readme, tree, py, cwd, file, here, long_description,
                   packages, calls, err, rerun, edited, prev>>

\* Variant of line 7 that catches the exception of open() and goes on with
\* an empty long description.
OpenFailSwallowed ==
    /\ pc = "here"
    /\ FileAt(OpenArg).st # "file"
    /\ opened' = OpenArg
    /\ io' = io \cup {[op |-> "open_r", path |-> OpenArg.parts, name |-> <<>>]}
    /\ trace' = Append(trace, "open_failed")
    /\ long_description' = <<>>
    /\ pc' = "args"
    /\ UNCHANGED <<readme, tree, py, cwd, file, here, handle, err,
                   packages, calls, rerun, edited, prev>>

\* line 7: open() raises when the file is missing or may not be read; the
\* exception is not caught and ends the script.
OpenFail ==
    /\ pc = "here"
    /\ FileAt(OpenArg).st # "file"
    /\ opened' = OpenArg
    /\ io' = io \cup {[op |-> "open_r", path |-> OpenArg.parts, name |-> <<>>]}
    /\ trace' = Append(trace, "open_failed")
    /\ err' = "IOError"
    /\ pc' = "failed"
    /\ UNCHANGED <<readme, tree, py, cwd, file, here, handle, long_description,
                   packages, calls, rerun, edited, prev>>

\* Variant of line 8 that empties README.md once it is read.
ReadAndTruncate ==
    /\ pc = "with"
    /\ long_description' = f_read(FileAt(opened).data)
    /\ readme' = IF opened = ReadmePath THEN File(<<>>) ELSE readme
    /\ io' = io \cup {[op |-> "read", path |-> opened.parts, name |-> <<>>]}
    /\ trace' = Append(trace, "read")
    /\ pc' = "body"
    /\ UNCHANGED <<tree, py, cwd, file, here, opened, handle,
                   packages, calls, err, rerun, edited, prev>>

\* line 8: long_description=f.read()
Read ==
    /\ pc = "with"
    /\ long_description' = f_read(FileAt(opened).data)
    /\ io' = io \cup {[op |-> "read", path |-> opened.parts, name |-> <<>>]}
    /\ trace' = Append(trace, "read")
    /\ pc' = "body"
    /\ UNCHANGED <<readme, tree, py, cwd, file, here, opened, handle,
                   packages, calls, err, rerun, edited, prev>>

\* Variant of lines 7-8 without the with statement: f stays open when
\* f.read() raises.
ReadFailLeak ==
    /\ pc = "with"
    /\ io' = io \cup {[op |-> "read", path |-> opened.parts, name |-> <<>>]}
    /\ trace' = Append(trace, "read_failed")
    /\ err' = "ReadError"
    /\ pc' = "failed"
    /\ UNCHANGED <<readme, tree, py, cwd, file, here, opened, handle, long_description,
                   packages, calls, rerun, edited, prev>>

\* line 8: f.read() raises (an I/O or a decoding error); the with statement
\* of line 7 closes f and the exception ends the script.
ReadFail ==
    /\ pc = "with"
    /\ io' = io \cup {[op |-> "read", path |-> opened.parts, name |-> <<>>]}
    /\ trace' = trace \o <<"read_failed", "close">>
    /\ handle' = "closed"
    /\ err' = "ReadError"
    /\ pc' = "failed"
    /\ UNCHANGED <<readme, tree, py, cwd, file, here, opened, long_description,
                   packages, calls, rerun, edited, prev>>

\* lines 7-8: leaving the with block closes f.
ExitWith ==
    /\ pc = "body"
    /\ handle' = "closed"
    /\ trace' = Append(trace, "close")
    /\ pc' = "args"
    /\ UNCHANGED <<readme, tree, py, cwd, file, here, opened, long_description,
                   packages, calls, err, io, rerun, edited, prev>>

\* line 29: packages=find_packages(exclude='tests'), evaluated as an
\* argument before the call; where is '.', the working directory.
FindPackages ==
    /\ pc = "args"
    /\ LET where == abspath(RelPath(<<".">>)).parts
       IN  /\ packages' = find_packages(where, StrArg(Tests), TupleArg(<<Star>>))
           /\ io' = io \cup WalkIO(where)
    /\ trace' = Append(trace, "find_packages")
    /\ pc' = "call"
    /\ UNCHANGED <<readme, tree, py, cwd, file, here, opened, handle,
                   long_description, calls, err, rerun, edited, prev>>

\* Variant of line 36 that names a requirement.
CallSetupWithRequirement ==
    /\ pc = "call"
    /\ calls' = Append(calls, [SetupKwargs EXCEPT !.install_requires = <<"numpy">>])
    /\ trace' = Append(trace, "setup")
    /\ pc' = "done"
    /\ UNCHANGED <<readme, tree, py, cwd, file, here, opened, handle,
                   long_description, packages, err, io, rerun, edited, prev>>

\* Variant of line 12 with the version left blank.
CallSetupBlankVersion ==
    /\ pc = "call"
    /\ calls' = Append(calls, [SetupKwargs EXCEPT !.version = ""])
    /\ trace' = Append(trace, "setup")
    /\ pc' = "done"
    /\ UNCHANGED <<readme, tree, py, cwd, file, here, opened, handle,
                   long_description, packages, err, io, rerun, edited, prev>>

\* long_description.rstrip('\n'): the text without its trailing line feeds.
RECURSIVE rstrip(_)
rstrip(d) == IF d # <<>> /\ d[Len(d)] = "LF" THEN rstrip(Front(d)) ELSE d

\* Variant of line 14 that passes long_description.rstrip('\n').
CallSetupStripped ==
    /\ pc = "call"
    /\ calls' = Append(calls, [SetupKwargs EXCEPT !.long_description = rstrip(long_description)])
    /\ trace' = Append(trace, "setup")
    /\ pc' = "done"
    /\ UNCHANGED <<readme, tree, py, cwd, file, here, opened, handle,
                   long_description, packages, err, io, rerun, edited, prev>>

\* line 10: setup(...)
CallSetup ==
    /\ pc = "call"
    /\ calls' = Append(calls, SetupKwargs)
    /\ trace' = Append(trace, "setup")
    /\ pc' = "done"
    /\ UNCHANGED <<readme, tree, py, cwd, file, here, opened, handle,
                   long_description, packages, err, io, rerun, edited, prev>>

\* Between two runs somebody may change README.md.
EditReadme ==
    /\ Terminal
    /\ ~rerun
    /\ ~edited
    /\ \E s \in FileStates \ {readme} : readme' = s
    /\ edited' = TRUE
    /\ UNCHANGED <<tree, py, cwd, file, pc, here, opened, handle, long_description,
                   packages, calls, err, trace, io, rerun, prev>>

\* The script is run a second time, as a new process, from any directory.
NewRun ==
    /\ Terminal
    /\ ~rerun
    /\ rerun' = TRUE
    /\ prev' = [done |-> pc = "done",
                ld   |-> IF pc = "done" THEN calls[1].long_description ELSE <<>>,
                cwd  |-> cwd]
    /\ \E inv \in Invocations : cwd' = inv[1] /\ file' = inv[2]
    /\ pc' = "start"
    /\ here' = NoPath
    /\ opened' = NoPath
    /\ handle' = "none"
    /\ long_description' = <<>>
    /\ packages' = {}
    /\ calls' = <<>>
    /\ err' = "none"
    /\ trace' = <<>>
    /\ io' = {}
    /\ UNCHANGED <<readme, tree, py, edited>>

Next ==
    \/ ComputeHere
    \/ OpenReadme
    \/ OpenFail
    \/ Read
    \/ ReadFail
    \/ ExitWith
    \/ FindPackages
    \/ CallSetup
    \/ EditReadme
    \/ NewRun

Spec == Init /\ [][Next]_vars

\* ------------------------------------------------------------------ claims

\* README.md is as the present run found it: nobody has changed it since.
ReadmeAsRun == rerun \/ ~edited

\* Both runs reached setup() and README.md did not change between them.
TwoRunsSameReadme == rerun /\ pc = "done" /\ prev.done /\ ~edited

\* C1: in every run that reaches setup(), the packages passed to it hold no
\* package named 'tests'.
C1_TestsExcluded == pc = "done" => Tests \notin calls[1].packages

\* C2: when README.md beside the script is absent or may not be read, the
\* run ends with a file-access error raised by open(), and setup() is never
\* called in that run.
C2_MissingReadmeFails ==
    (Terminal /\ ReadmeAsRun /\ readme.st # "file")
        => /\ pc = "failed"
           /\ err = "IOError"
           /\ calls = <<>>
           /\ \A i \in DOMAIN trace : trace[i] \notin {"find_packages", "setup"}

C2_Witness == pc = "failed" /\ readme.st = "noperm" /\ ReadmeAsRun /\ trace = <<"open_failed">>

\* C3, as stated: install_requires and dependency_links are passed as lists
\* of zero elements.
C3_EmptyLists ==
    pc = "done" => /\ Len(calls[1].install_requires) = 0
                   /\ Len(calls[1].dependency_links) = 0

\* C3, amended: install_requires and dependency_links are each passed as a
\* list of one element, the empty string, so neither names a dependency.
C3_OnlyEmptyString ==
    pc = "done" => /\ calls[1].install_requires = <<"">>
                   /\ calls[1].dependency_links = <<"">>

C3_Witness == pc = "done" /\ Len(calls) = 1 /\ Len(calls[1].install_requires) = 1

\* C4: in every run that reaches setup(), name, version, license and author
\* are non-empty strings, whatever README.md holds.
C4_RequiredFieldsNonEmpty ==
    \A i \in DOMAIN calls :
        /\ calls[i].name # ""
        /\ calls[i].version # ""
        /\ calls[i].license # ""
        /\ calls[i].author # ""

C4_Witness == pc = "done" /\ Len(calls) = 1 /\ ReadmeAsRun /\ readme.data = <<>>

\* C5: two runs of the script with README.md unchanged between them pass
\* the same long_description to setup().
C5_SameLongDescription == TwoRunsSameReadme => calls[1].long_description = prev.ld

C5_Witness == TwoRunsSameReadme /\ prev.ld # <<>> /\ py = 3 /\ prev.ld # readme.data

\* C6: the long_description passed to setup() is the whole value f.read()
\* returned for README.md, which under Python 2 is the file byte for byte.
C6_LongDescriptionIsReadme ==
    (pc = "done" /\ ReadmeAsRun)
        => /\ calls[1].long_description = f_read(readme.data)
           /\ py = 2 => calls[1].long_description = readme.data

C6_Witness ==
    pc = "done" /\ ReadmeAsRun /\ Len(readme.data) = MaxLen /\ readme.data[MaxLen] = "LF"

\* The accesses that read README.md beside the script.
IsReadmeRead(e) == e.op \in {"open_r", "read"} /\ e.path = ReadmePath.parts /\ e.name = <<>>

\* The accesses of the package discovery: read-only, in the working directory.
IsDiscovery(e) == e.op \in {"listdir", "stat"} /\ e.path = cwd

\* C7, as stated: setup() is called at most once in a run and every access
\* to the file system in the run is a read of README.md.
C7_OnlyReadmeIO == Len(calls) <= 1 /\ \A e \in io : IsReadmeRead(e)

\* C7, amended: setup() is called at most once in a run, nothing is written,
\* and every access to the file system is a read of README.md or a listing
\* or probe of the working directory made by the package discovery.
C7_ReadmeAndDiscoveryIO ==
    /\ Len(calls) <= 1
    /\ \A e \in io : IsReadmeRead(e) \/ IsDiscovery(e)
    /\ pc \in {"start", "here", "with", "body", "args", "failed"}
          => \A e \in io : IsReadmeRead(e)

C7_Witness ==
    /\ pc = "done"
    /\ \E e \in io : IsReadmeRead(e) /\ e.op = "read"
    /\ \E e \in io : IsDiscovery(e) /\ e.op = "stat" /\ e.name = Tests

\* C8: README.md is opened, read and closed before the packages are
\* discovered and setup() is called, the handle is closed whenever setup()
\* runs and in every final state of a run in which it was opened, also
\* when f.read() raises.
C8_HandleClosed ==
    /\ Terminal => handle # "open"
    /\ (Terminal /\ opened # NoPath /\ err # "IOError") => handle = "closed"
    /\ pc \in {"args", "call", "done"} => handle = "closed"
    /\ pc = "done" => trace = <<"open", "read", "close", "find_packages", "setup">>

C8_Witness == pc = "failed" /\ err = "ReadError" /\ handle = "closed"

\* C9: from every working directory and for every form of __file__ the
\* file opened is README.md in the directory of setup.py, and two runs
\* from different working directories with README.md unchanged pass the
\* same long_description to setup().
C9_ReadmeAnchoredToScript ==
    /\ here # NoPath => here = AbsPath(ScriptDir)
    /\ opened # NoPath => opened = ReadmePath
    /\ (TwoRunsSameReadme /\ prev.cwd # cwd) => calls[1].long_description = prev.ld

C9_Witness ==
    TwoRunsSameReadme /\ prev.cwd = ScriptDir /\ cwd = OtherDir /\ ~file.abs /\ prev.ld # <<>>

====
